---- MODULE Spec2Model ----
(***************************************************************************)
(* Model of the RoadmapGraph engine (src/unnamed/part_002) and of the      *)
(* descendant index (src/src/graphOptimizer.ts).                           *)
(*                                                                         *)
(* Node ids are the integers 1..NumNodes in document order; the id         *)
(* NumNodes+1 is an id no node carries.  Reduction factors and risks are   *)
(* exact fractions [n, d] in lowest terms.  The factors drawn for effort   *)
(* and uncertainty are dyadic, for which the double arithmetic of the      *)
(* source is exact; the risk factor 2/5 stands for the double 0.4.         *)
(* Titles, descriptions and annotations play no part in any computation    *)
(* and are left out of the records.                                        *)
(***************************************************************************)
EXTENDS Integers, Sequences, FiniteSets, TLC

\* ------------------------------------------------------------------ bounds
NumNodes == 3
MaxEdges == 2
MaxSnapshots == 1

NodeIds == 1..NumNodes
UnknownId == NumNodes + 1
CallIds == NodeIds \cup {UnknownId}

\* parentId?: string -- the absent parent
NoParent == 0

\* ------------------------------------------------------- exact fractions
RECURSIVE GCD(_, _)
GCD(a, b) == IF b = 0 THEN a ELSE GCD(b, a % b)

Frac(n, d) == LET g == GCD(n, d) IN [n |-> n \div g, d |-> d \div g]
FZero == [n |-> 0, d |-> 1]
FOne == [n |-> 1, d |-> 1]
FMul(a, b) == Frac(a.n * b.n, a.d * b.d)
FSub(a, b) == Frac(a.n * b.d - b.n * a.d, a.d * b.d)
FAdd(a, b) == Frac(a.n * b.d + b.n * a.d, a.d * b.d)
FLess(a, b) == a.n * b.d < b.n * a.d
FInt(k) == [n |-> k, d |-> 1]

\* ----------------------------------------------------------------- state
VARIABLES nodes, edges, completedNodes, snapshots, descendantsCache, call

vars == <<nodes, edges, completedNodes, snapshots, descendantsCache, call>>

HierTypes == {"pillar", "initiative", "problem"}
NodeTypes == HierTypes \cup {"solution"}

\* ------------------------------------------------------ adjacency indices
RECURSIVE FilterSeq(_, _, _)
\* s.filter(keep) for a predicate given as the set of kept elements' indices
FilterSeq(s, keep, i) ==
    IF i > Len(s) THEN <<>>
    ELSE (IF i \in keep THEN <<s[i]>> ELSE <<>>) \o FilterSeq(s, keep, i + 1)

outgoing(id) ==
    FilterSeq(edges, {i \in 1..Len(edges) : edges[i].source = id}, 1)

incoming(id) ==
    FilterSeq(edges, {i \in 1..Len(edges) : edges[i].target = id}, 1)

OfType(es, t) == FilterSeq(es, {i \in 1..Len(es) : es[i].type = t}, 1)

children(id) ==
    FilterSeq([i \in 1..NumNodes |-> i],
              {i \in NodeIds : nodes[i].parentId = id}, 1)

\* ------------------------------------------------------ descendant index
RECURSIVE getDescendantsRecursive(_, _)
RECURSIVE DescOfChildren(_, _, _)
DescOfChildren(ns, kids, i) ==
    IF i > Len(kids) THEN <<>>
    ELSE <<kids[i]>> \o getDescendantsRecursive(kids[i], ns)
                     \o DescOfChildren(ns, kids, i + 1)

\* variant: the children alone, without the recursive call
getDescendantsRecursive_ChildrenOnly(nodeId, ns) ==
    FilterSeq([i \in 1..NumNodes |-> i],
              {i \in NodeIds : ns[i].parentId = nodeId}, 1)

getDescendantsRecursive(nodeId, ns) ==
    DescOfChildren(ns,
        FilterSeq([i \in 1..NumNodes |-> i],
                  {i \in NodeIds : ns[i].parentId = nodeId}, 1), 1)

computeDescendants(ns) == [id \in NodeIds |-> getDescendantsRecursive(id, ns)]

getAllDescendants(nodeId) ==
    IF nodeId \in DOMAIN descendantsCache THEN descendantsCache[nodeId] ELSE <<>>

SeqSet(s) == {s[i] : i \in 1..Len(s)}

\* ------------------------------------------------------ state management
\* variant: every id is taken for a node (the lookup's result is not tested)
hasNode_Unchecked(nodeId) == TRUE

\* this.nodes.get(nodeId) finds a node
hasNode(nodeId) == nodeId \in NodeIds

isCompleted(nodeId, comp) == nodeId \in comp

\* ------------------------------------------------- dependency resolution
RECURSIVE findAncestorOfType(_, _)
\* the id of the nearest node of the given type on the chain nodeId,
\* parent, grandparent, ...; NoParent stands for the null result
findAncestorOfType(nodeId, ancestorType) ==
    IF nodeId \notin NodeIds THEN NoParent
    ELSE IF nodes[nodeId].type = ancestorType THEN nodeId
    ELSE IF nodes[nodeId].parentId = NoParent THEN NoParent
    ELSE findAncestorOfType(nodes[nodeId].parentId, ancestorType)

directDeps(nodeId) == OfType(outgoing(nodeId), "DEPENDS_ON")

\* variant: only the direct parent's edges are inherited (no walk up the chain)
inheritedDeps_ParentOnly(nodeId) ==
    IF nodeId \notin NodeIds \/ nodes[nodeId].parentId = NoParent THEN <<>>
    ELSE OfType(outgoing(nodes[nodeId].parentId), "DEPENDS_ON")

RECURSIVE inheritedDeps(_)
inheritedDeps(nodeId) ==
    IF nodeId \notin NodeIds \/ nodes[nodeId].parentId = NoParent THEN <<>>
    ELSE OfType(outgoing(nodes[nodeId].parentId), "DEPENDS_ON")
             \o inheritedDeps(nodes[nodeId].parentId)

\* variant: the test without its last conjunct, !descendantSet.has(edge.target)
crossesOutside_NoSubtreeTest(nodeId, edge) ==
    LET targetAncestor == findAncestorOfType(edge.target, nodes[nodeId].type)
    IN  /\ targetAncestor # NoParent
        /\ targetAncestor # nodeId

\* the test of lines 305-309 on one DEPENDS_ON edge of a descendant
crossesOutside(nodeId, edge) ==
    LET targetAncestor == findAncestorOfType(edge.target, nodes[nodeId].type)
        descendantSet == {nodeId} \cup SeqSet(getAllDescendants(nodeId))
    IN  /\ targetAncestor # NoParent
        /\ targetAncestor # nodeId
        /\ edge.target \notin descendantSet

RECURSIVE descendantDepsFrom(_, _, _)
descendantDepsFrom(nodeId, descendants, i) ==
    IF i > Len(descendants) THEN <<>>
    ELSE LET descEdges == OfType(outgoing(descendants[i]), "DEPENDS_ON")
         IN  FilterSeq(descEdges,
                 {k \in 1..Len(descEdges) : crossesOutside(nodeId, descEdges[k])}, 1)
             \o descendantDepsFrom(nodeId, descendants, i + 1)

descendantDeps(nodeId) ==
    IF nodeId \in NodeIds /\ nodes[nodeId].type \in HierTypes
    THEN descendantDepsFrom(nodeId, getAllDescendants(nodeId), 1)
    ELSE <<>>

\* new Map filled by set(dep.target, dep): one entry per target, placed
\* where the target first occurs, holding the last edge with that target
uniqueDeps(allDeps) ==
    LET firsts == {i \in 1..Len(allDeps) :
                     \A j \in 1..(i - 1) : allDeps[j].target # allDeps[i].target}
        lastWith(t) == CHOOSE i \in 1..Len(allDeps) :
                          /\ allDeps[i].target = t
                          /\ \A j \in (i + 1)..Len(allDeps) : allDeps[j].target # t
        keys == FilterSeq(allDeps, firsts, 1)
    IN  [k \in 1..Len(keys) |-> allDeps[lastWith(keys[k].target)]]

getAllDependencies(nodeId) ==
    uniqueDeps(directDeps(nodeId) \o inheritedDeps(nodeId) \o descendantDeps(nodeId))

isReady(nodeId, comp) ==
    LET deps == getAllDependencies(nodeId)
    IN  \A i \in 1..Len(deps) : isCompleted(deps[i].target, comp)

\* ------------------------------------------------------ adjustment engine
RECURSIVE reductionMultiplier_Inverted(_, _, _)
\* variant: the completion test of the loop negated
reductionMultiplier_Inverted(es, comp, i) ==
    IF i > Len(es) THEN FOne
    ELSE LET rest == reductionMultiplier_Inverted(es, comp, i + 1)
         IN  IF ~isCompleted(es[i].source, comp) /\ es[i].factor.n # 0
             THEN FMul(FSub(FOne, es[i].factor), rest)
             ELSE rest

RECURSIVE reductionMultiplier(_, _, _)
\* the loop "if (isCompleted(edge.source) && edge.factor) m *= 1 - factor"
reductionMultiplier(es, comp, i) ==
    IF i > Len(es) THEN FOne
    ELSE LET rest == reductionMultiplier(es, comp, i + 1)
         IN  IF isCompleted(es[i].source, comp) /\ es[i].factor.n # 0
             THEN FMul(FSub(FOne, es[i].factor), rest)
             ELSE rest

\* variant: truncation in place of rounding
MathRound_Floor(f) == f.n \div f.d

\* Math.round of a non-negative fraction: nearest integer, halves go up
MathRound(f) == (2 * f.n + f.d) \div (2 * f.d)

getEffectiveEffort(nodeId, comp) ==
    IF nodeId \notin NodeIds THEN 0
    ELSE IF isCompleted(nodeId, comp) THEN 0
    ELSE IF nodes[nodeId].baseEffort = 0 THEN 0
    ELSE MathRound(FMul(FInt(nodes[nodeId].baseEffort),
             reductionMultiplier(OfType(incoming(nodeId), "FACILITATES"), comp, 1)))

getBaseRisk(nodeId) ==
    IF nodeId \in NodeIds THEN nodes[nodeId].baseRisk ELSE FZero

\* variant: every derisker counts, completed or not
getAdjustedRisk_EveryDerisker(nodeId, comp) ==
    LET baseRisk == getBaseRisk(nodeId)
        deriskers == OfType(incoming(nodeId), "DERISKS")
    IN  IF baseRisk.n = 0 THEN FZero
        ELSE IF Len(deriskers) = 0 THEN baseRisk
        ELSE FMul(baseRisk, reductionMultiplier(deriskers, NodeIds, 1))

getAdjustedRisk(nodeId, comp) ==
    LET baseRisk == getBaseRisk(nodeId)
        deriskers == OfType(incoming(nodeId), "DERISKS")
    IN  IF baseRisk.n = 0 THEN FZero
        ELSE IF Len(deriskers) = 0 THEN baseRisk
        ELSE FMul(baseRisk, reductionMultiplier(deriskers, comp, 1))

getSafetyFactor(nodeId, comp) == FSub(FOne, getAdjustedRisk(nodeId, comp))

\* --------------------------------------------------- completion simulator
RiskEpsilon == [n |-> 1, d |-> 100]

RECURSIVE SumEffort(_, _)
SumEffort(items, i) ==
    IF i > Len(items) THEN 0 ELSE items[i].effort + SumEffort(items, i + 1)

RECURSIVE SumSaved(_, _)
SumSaved(items, i) ==
    IF i > Len(items) THEN 0
    ELSE (items[i].oldEffort - items[i].newEffort) + SumSaved(items, i + 1)

RECURSIVE SumRisk(_, _)
SumRisk(items, i) ==
    IF i > Len(items) THEN FZero
    ELSE FAdd(FMul(FSub(items[i].oldRisk, items[i].newRisk), FInt(items[i].effort)),
              SumRisk(items, i + 1))

\* the returned CompletionImpact, lines 216-236 and 502-521
Impact(nowReady, effortReductions, riskReductions) ==
    [nowReady |-> nowReady,
     effortReductions |-> effortReductions,
     riskReductions |-> riskReductions,
     totalEffortUnblocked |-> SumEffort(nowReady, 1),
     totalEffortSaved |-> SumSaved(effortReductions, 1),
     totalRiskReduced |-> SumRisk(riskReductions, 1)]

NoImpact == Impact(<<>>, <<>>, <<>>)

\* lines 146-159 and 419-431: the dependents of nodeId that are ready and
\* not completed under comp, in the order of nodeId's incoming edges
nowReadyList(nodeId, comp) ==
    LET dependentEdges == OfType(incoming(nodeId), "DEPENDS_ON")
        ready == FilterSeq(dependentEdges,
                    {i \in 1..Len(dependentEdges) :
                        /\ isReady(dependentEdges[i].source, comp)
                        /\ ~isCompleted(dependentEdges[i].source, comp)}, 1)
    IN  [i \in 1..Len(ready) |->
            [id |-> ready[i].source,
             effort |-> getEffectiveEffort(ready[i].source, comp)]]

\* markCompleted, lines 161-186, with before = the set on entry and
\* after = the set with nodeId added
RECURSIVE markEffortReductions(_, _, _, _)
markEffortReductions(es, before, after, i) ==
    IF i > Len(es) THEN <<>>
    ELSE LET targetId == es[i].target
             oldEffort == getEffectiveEffort(targetId, before)
             newEffort == getEffectiveEffort(targetId, after)
             rest == markEffortReductions(es, before, after, i + 1)
         IN  IF isCompleted(targetId, after) THEN rest
             ELSE IF newEffort < oldEffort
             THEN <<[id |-> targetId, oldEffort |-> oldEffort,
                     newEffort |-> newEffort]>> \o rest
             ELSE rest

\* markCompleted, lines 188-214
RECURSIVE markRiskReductions(_, _, _, _)
markRiskReductions(es, before, after, i) ==
    IF i > Len(es) THEN <<>>
    ELSE LET targetId == es[i].target
             oldRisk == getAdjustedRisk(targetId, before)
             newRisk == getAdjustedRisk(targetId, after)
             rest == markRiskReductions(es, before, after, i + 1)
         IN  IF isCompleted(targetId, after) THEN rest
             ELSE IF FLess(newRisk, FSub(oldRisk, RiskEpsilon))
             THEN <<[id |-> targetId, oldRisk |-> oldRisk, newRisk |-> newRisk,
                     effort |-> getEffectiveEffort(targetId, after)]>> \o rest
             ELSE rest

\* variant: completing a node completes its children with it
markCompletedSet_Cascade(nodeId, comp) ==
    comp \cup {nodeId} \cup {c \in NodeIds : nodes[c].parentId = nodeId}

\* the completed set markCompleted leaves, line 143
markCompletedSet(nodeId, comp) == comp \cup {nodeId}

markCompletedImpact(nodeId, comp) ==
    LET after == markCompletedSet(nodeId, comp)
    IN  Impact(nowReadyList(nodeId, after),
               markEffortReductions(OfType(outgoing(nodeId), "FACILITATES"),
                                    comp, after, 1),
               markRiskReductions(OfType(outgoing(nodeId), "DERISKS"),
                                  comp, after, 1))

\* previewCompletion, lines 441-465: the loop over the FACILITATES edges,
\* carrying the completed set c it adds nodeId to and deletes it from
RECURSIVE previewEffortLoop(_, _, _, _)
previewEffortLoop(nodeId, es, c, i) ==
    IF i > Len(es) THEN [c |-> c, out |-> <<>>]
    ELSE LET targetId == es[i].target
         IN  IF isCompleted(targetId, c)
             THEN previewEffortLoop(nodeId, es, c, i + 1)
             ELSE LET oldEffort == getEffectiveEffort(targetId, c)
                      newEffort == getEffectiveEffort(targetId, c \cup {nodeId})
                      r == previewEffortLoop(nodeId, es, c \ {nodeId}, i + 1)
                  IN  [c |-> r.c,
                       out |-> IF newEffort < oldEffort
                               THEN <<[id |-> targetId, oldEffort |-> oldEffort,
                                       newEffort |-> newEffort]>> \o r.out
                               ELSE r.out]

\* previewCompletion, lines 467-495: the loop over the DERISKS edges
RECURSIVE previewRiskLoop(_, _, _, _)
previewRiskLoop(nodeId, es, c, i) ==
    IF i > Len(es) THEN [c |-> c, out |-> <<>>]
    ELSE LET targetId == es[i].target
         IN  IF isCompleted(targetId, c)
             THEN previewRiskLoop(nodeId, es, c, i + 1)
             ELSE LET oldRisk == getAdjustedRisk(targetId, c)
                      newRisk == getAdjustedRisk(targetId, c \cup {nodeId})
                      after == c \ {nodeId}
                      r == previewRiskLoop(nodeId, es, after, i + 1)
                  IN  [c |-> r.c,
                       out |-> IF FLess(newRisk, FSub(oldRisk, RiskEpsilon))
                               THEN <<[id |-> targetId, oldRisk |-> oldRisk,
                                       newRisk |-> newRisk,
                                       effort |-> getEffectiveEffort(targetId, after)]>>
                                    \o r.out
                               ELSE r.out]

\* previewCompletion as a whole: the record returned and the completed set
\* left behind
previewRun(nodeId, comp) ==
    LET wasCompleted == isCompleted(nodeId, comp)
        toggled == IF ~wasCompleted THEN comp \cup {nodeId} ELSE comp
        nowReady == nowReadyList(nodeId, toggled)
        eff == previewEffortLoop(nodeId, OfType(outgoing(nodeId), "FACILITATES"),
                                 toggled, 1)
        risk == previewRiskLoop(nodeId, OfType(outgoing(nodeId), "DERISKS"),
                                eff.c, 1)
        restored == IF wasCompleted THEN risk.c \cup {nodeId} ELSE risk.c
    IN  [completed |-> restored, impact |-> Impact(nowReady, eff.out, risk.out)]

previewCompletionSet(nodeId, comp) == previewRun(nodeId, comp).completed

previewCompletionImpact(nodeId, comp) == previewRun(nodeId, comp).impact

\* variant: the delete runs whether or not the id is a node
markIncompleteSet_Unguarded(nodeId, comp) == comp \ {nodeId}

\* variant: undoing a node also undoes its descendants
markIncompleteSet_Cascade(nodeId, comp) ==
    IF hasNode(nodeId)
    THEN comp \ ({nodeId} \cup SeqSet(getAllDescendants(nodeId)))
    ELSE comp

\* the completed set markIncomplete leaves, lines 243-247
markIncompleteSet(nodeId, comp) ==
    IF hasNode(nodeId) THEN comp \ {nodeId} ELSE comp

RECURSIVE snapshotSums_BlockedAsReady(_, _)
\* variant: the effort of a node that is not ready goes to readyEffort
snapshotSums_BlockedAsReady(comp, i) ==
    IF i > NumNodes THEN [total |-> 0, ready |-> 0, blocked |-> 0]
    ELSE LET r == snapshotSums_BlockedAsReady(comp, i + 1)
             effort == getEffectiveEffort(i, comp)
         IN  IF nodes[i].type # "solution" \/ isCompleted(i, comp) THEN r
             ELSE [total |-> r.total + effort,
                   ready |-> r.ready + effort,
                   blocked |-> r.blocked]

RECURSIVE snapshotSums(_, _)
\* takeSnapshot, lines 369-385: the three sums over the non-completed
\* solution nodes
snapshotSums(comp, i) ==
    IF i > NumNodes THEN [total |-> 0, ready |-> 0, blocked |-> 0]
    ELSE LET r == snapshotSums(comp, i + 1)
             effort == getEffectiveEffort(i, comp)
         IN  IF nodes[i].type # "solution" \/ isCompleted(i, comp) THEN r
             ELSE [total |-> r.total + effort,
                   ready |-> IF isReady(i, comp) THEN r.ready + effort ELSE r.ready,
                   blocked |-> IF isReady(i, comp) THEN r.blocked
                               ELSE r.blocked + effort]

\* variant: the new snapshot takes the place of the history
pushSnapshot_Replace(history, snapshot) == <<snapshot>>

\* this.snapshots.push(snapshot), line 395
pushSnapshot(history, snapshot) == Append(history, snapshot)

newSnapshot(comp) ==
    LET sums == snapshotSums(comp, 1)
    IN  [completedNodes |-> comp,
         totalRemainingEffort |-> sums.total,
         readyEffort |-> sums.ready,
         blockedEffort |-> sums.blocked]

\* ------------------------------------------------------ effort roll-up
RECURSIVE getTotalEffort(_, _)
RECURSIVE sumTotalEffort(_, _, _)
\* childIds.reduce((sum, childId) => sum + getTotalEffort(childId), 0)
sumTotalEffort(ids, comp, i) ==
    IF i > Len(ids) THEN 0
    ELSE getTotalEffort(ids[i], comp) + sumTotalEffort(ids, comp, i + 1)

getTotalEffort(nodeId, comp) ==
    IF nodeId \notin NodeIds THEN 0
    ELSE IF isCompleted(nodeId, comp) THEN 0
    ELSE IF nodes[nodeId].type = "solution" THEN getEffectiveEffort(nodeId, comp)
    ELSE sumTotalEffort(children(nodeId), comp, 1)

\* the sources of a list of edges, in the list's order
Sources(es) == [i \in 1..Len(es) |-> es[i].source]

\* getDownstreamEffort, lines 623-641: one turn of the while loop per
\* element taken from the queue; a source is added to the total and
\* queued whenever an edge from it is met before it has been dequeued
RECURSIVE downstreamLoop(_, _, _, _)
downstreamLoop(queue, visited, totalEffort, comp) ==
    IF Len(queue) = 0 THEN totalEffort
    ELSE LET current == Head(queue)
         IN  IF current \in visited
             THEN downstreamLoop(Tail(queue), visited, totalEffort, comp)
             ELSE LET seen == visited \cup {current}
                      dependentEdges == OfType(incoming(current), "DEPENDS_ON")
                      fresh == Sources(FilterSeq(dependentEdges,
                                  {i \in 1..Len(dependentEdges) :
                                      dependentEdges[i].source \notin seen}, 1))
                  IN  downstreamLoop(Tail(queue) \o fresh, seen,
                          totalEffort + sumTotalEffort(fresh, comp, 1), comp)

getDownstreamEffort(nodeId, comp) == downstreamLoop(<<nodeId>>, {}, 0, comp)

\* ---------------------------------------------------- topological levels
\* the passes the while loop of computeTopologicalLevels can make: each
\* pass but the last computes at least one more node
MaxPasses == NumNodes + 1

\* variant: the edges are entered backwards, deps.get(edge.target) gets
\* edge.source
topoDeps_Reversed(nodeId) ==
    {edges[i].source : i \in {k \in 1..Len(edges) :
        edges[k].type = "DEPENDS_ON" /\ edges[k].target = nodeId}}

\* deps.get(nodeId), lines 656-662
topoDeps(nodeId) ==
    {edges[i].target : i \in {k \in 1..Len(edges) :
        edges[k].type = "DEPENDS_ON" /\ edges[k].source = nodeId}}

\* variant: a pass takes only the first node it can
thisLevel_FirstOnly(computed) ==
    LET all == {n \in NodeIds \ computed : topoDeps(n) \subseteq computed}
    IN  {n \in all : \A m \in all : n <= m}

\* lines 669-680: the nodes one pass gives the current level
thisLevel(computed) ==
    {n \in NodeIds \ computed : topoDeps(n) \subseteq computed}

\* variant: the pass that peels nothing only breaks out of the loop
stalledLevels_Unassigned(levels, computed, currentLevel) == levels

\* lines 683-691: the pass that peels nothing gives the current level to
\* every node not computed
stalledLevels(levels, computed, currentLevel) ==
    [n \in DOMAIN levels \cup (NodeIds \ computed) |->
        IF n \in computed /\ n \in DOMAIN levels THEN levels[n] ELSE currentLevel]

RECURSIVE topoLoop(_, _, _, _)
\* the while loop of lines 668-697; passes counts the passes left
topoLoop(levels, computed, currentLevel, passes) ==
    IF Cardinality(computed) >= NumNodes THEN [levels |-> levels, returns |-> TRUE]
    ELSE IF passes = 0 THEN [levels |-> levels, returns |-> FALSE]
    ELSE LET peeled == thisLevel(computed)
         IN  IF peeled = {}
             THEN [levels |-> stalledLevels(levels, computed, currentLevel),
                   returns |-> TRUE]
             ELSE topoLoop([n \in DOMAIN levels \cup peeled |->
                               IF n \in peeled THEN currentLevel ELSE levels[n]],
                           computed \cup peeled, currentLevel + 1, passes - 1)

computeTopologicalLevels == topoLoop([n \in {} |-> 0], {}, 0, MaxPasses)

\* topoLevels.get(a) ?? 0
levelOf(levels, nodeId) ==
    IF nodeId \in DOMAIN levels THEN levels[nodeId] ELSE 0

\* ---------------------------------------------------------- critical path
\* prev.set(nodeId, null)
NoPrev == 0

\* lines 1160-1162: the node ids sorted by level, ties in document order
RECURSIVE sortedByLevel(_, _)
sortedByLevel(levels, lv) ==
    IF lv > NumNodes THEN <<>>
    ELSE FilterSeq([i \in 1..NumNodes |-> i],
                   {i \in NodeIds : levelOf(levels, i) = lv}, 1)
             \o sortedByLevel(levels, lv + 1)

\* lines 1180-1188: the dependents of one node, dp = [dist, prev]
RECURSIVE relaxEdges(_, _, _, _, _, _)
relaxEdges(es, k, nodeId, currentDist, dp, comp) ==
    IF k > Len(es) THEN dp
    ELSE LET src == es[k].source
             newDist == currentDist + getTotalEffort(src, comp)
         IN  relaxEdges(es, k + 1, nodeId, currentDist,
                 IF newDist > dp.dist[src]
                 THEN [dist |-> [dp.dist EXCEPT ![src] = newDist],
                       prev |-> [dp.prev EXCEPT ![src] = nodeId]]
                 ELSE dp, comp)

\* lines 1173-1189
RECURSIVE relaxNodes(_, _, _, _)
relaxNodes(sortedNodes, i, dp, comp) ==
    IF i > Len(sortedNodes) THEN dp
    ELSE relaxNodes(sortedNodes, i + 1,
             relaxEdges(OfType(incoming(sortedNodes[i]), "DEPENDS_ON"), 1,
                        sortedNodes[i], dp.dist[sortedNodes[i]], dp, comp), comp)

RECURSIVE maxOfDist_FirstPositive(_, _, _, _)
\* variant: the first node, in sorted order, of a distance above 0
maxOfDist_FirstPositive(sortedNodes, i, dist, best) ==
    IF i > Len(sortedNodes) THEN best
    ELSE maxOfDist_FirstPositive(sortedNodes, i + 1, dist,
             IF best.maxDist = 0 /\ dist[sortedNodes[i]] > 0
             THEN [maxNode |-> sortedNodes[i], maxDist |-> dist[sortedNodes[i]]]
             ELSE best)

RECURSIVE maxOfDist(_, _, _, _)
\* lines 1192-1199: the first node, in sorted order, of the largest
\* distance above 0
maxOfDist(sortedNodes, i, dist, best) ==
    IF i > Len(sortedNodes) THEN best
    ELSE maxOfDist(sortedNodes, i + 1, dist,
             IF dist[sortedNodes[i]] > best.maxDist
             THEN [maxNode |-> sortedNodes[i], maxDist |-> dist[sortedNodes[i]]]
             ELSE best)

\* lines 1202-1207: the walk along the predecessor pointers, newest node
\* first.  A walk that has pushed NumNodes ids and still holds an id has
\* come back to an id it pushed before; the pointers do not change, so
\* the loop pushes for ever and the call never returns.
RECURSIVE walkBack(_, _, _)
walkBack(current, prev, pushes) ==
    IF current = NoPrev THEN [path |-> <<>>, returns |-> TRUE]
    ELSE IF pushes = 0 THEN [path |-> <<>>, returns |-> FALSE]
    ELSE LET r == walkBack(prev[current], prev, pushes - 1)
         IN  [path |-> Append(r.path, current), returns |-> r.returns]

findCriticalPath(comp) ==
    LET topoLevels == computeTopologicalLevels.levels
        sortedNodes == sortedByLevel(topoLevels, 0)
        dp == relaxNodes(sortedNodes, 1,
                  [dist |-> [n \in NodeIds |-> getTotalEffort(n, comp)],
                   prev |-> [n \in NodeIds |-> NoPrev]], comp)
        best == maxOfDist(sortedNodes, 1, dp.dist,
                          [maxNode |-> sortedNodes[1], maxDist |-> 0])
        walk == walkBack(best.maxNode, dp.prev, NumNodes)
    IN  [path |-> walk.path, totalEffort |-> best.maxDist, returns |-> walk.returns]

\* -------------------------------------------------------- cycle detection
\* path.indexOf(x), counted from 1
indexOf(path, x) == CHOOSE i \in 1..Len(path) :
                        path[i] = x /\ \A j \in 1..(i - 1) : path[j] # x

\* variant: the slice alone, the revisited node not appended
cycleOf_Open(path, target) == SubSeq(path, indexOf(path, target), Len(path))

\* [...path.slice(cycleStart), edge.target], lines 1235-1236
cycleOf(path, target) ==
    Append(SubSeq(path, indexOf(path, target), Len(path)), target)

\* the closure dfs of lines 1222-1243 with st = [visited, cycles]; path
\* holds the recursion stack, whose members are recStack; the closure
\* returns false on every path, so the loop over outEdges always runs to
\* its end
RECURSIVE dfs(_, _, _)
RECURSIVE dfsEdges(_, _, _, _)
dfsEdges(outEdges, i, path, st) ==
    IF i > Len(outEdges) THEN st
    ELSE LET target == outEdges[i].target
         IN  IF target \notin st.visited
             THEN dfsEdges(outEdges, i + 1, path, dfs(target, path, st))
             ELSE IF target \in SeqSet(path)
             THEN dfsEdges(outEdges, i + 1, path,
                      [st EXCEPT !.cycles = Append(@, cycleOf(path, target))])
             ELSE dfsEdges(outEdges, i + 1, path, st)

dfs(nodeId, path, st) ==
    dfsEdges(OfType(outgoing(nodeId), "DEPENDS_ON"), 1, Append(path, nodeId),
             [st EXCEPT !.visited = @ \cup {nodeId}])

\* lines 1245-1249
RECURSIVE dfsFromEach(_, _)
dfsFromEach(i, st) ==
    IF i > NumNodes THEN st
    ELSE dfsFromEach(i + 1, IF i \notin st.visited THEN dfs(i, <<>>, st) ELSE st)

findCycles == dfsFromEach(1, [visited |-> {}, cycles |-> <<>>]).cycles

\* --------------------------------------------------------------- readiness
\* computeReadiness, lines 791-801: deps are the DEPENDS_ON edges INTO
\* nodeId, and the completion test reads each edge's target
computeReadiness(nodeId, comp) ==
    IF isCompleted(nodeId, comp) THEN FZero
    ELSE LET deps == OfType(incoming(nodeId), "DEPENDS_ON")
             unmetDeps == Len(FilterSeq(deps,
                              {i \in 1..Len(deps) : ~isCompleted(deps[i].target, comp)}, 1))
         IN  IF Len(deps) = 0 THEN FOne ELSE Frac(1, unmetDeps + 1)

\* ------------------------------------------------------------ uncertainty
\* node?.baseUncertainty ?? 0.0: only solution nodes carry the field
getBaseUncertainty(nodeId) ==
    IF nodeId \in NodeIds /\ "baseUncertainty" \in DOMAIN nodes[nodeId]
    THEN nodes[nodeId].baseUncertainty
    ELSE FZero

getAdjustedUncertainty(nodeId, comp) ==
    LET baseUncertainty == getBaseUncertainty(nodeId)
        informers == OfType(incoming(nodeId), "INFORMS")
    IN  IF baseUncertainty.n = 0 THEN FZero
        ELSE IF Len(informers) = 0 THEN baseUncertainty
        ELSE FMul(baseUncertainty, reductionMultiplier(informers, comp, 1))

getAdjustedEffort(nodeId, comp) ==
    FMul(FInt(getEffectiveEffort(nodeId, comp)),
         FAdd(FOne, getAdjustedUncertainty(nodeId, comp)))

\* ------------------------------------------------------------ all metrics
\* computeAllMetrics, lines 1049-1097: one record per node in document
\* order.  The record holds the effort, uncertainty, risk, readiness and
\* level fields of the bundle; titles, degree counts and the score fields
\* (leverage, influence, priority, risk mitigation, cross-cutting edges)
\* are left out of it.
computeAllMetrics(comp) ==
    LET topoLevels == computeTopologicalLevels.levels
    IN  [nodeId \in 1..NumNodes |->
            LET directEffort == getEffectiveEffort(nodeId, comp)
                uncertainty == getAdjustedUncertainty(nodeId, comp)
            IN  [id |-> nodeId,
                 type |-> nodes[nodeId].type,
                 directEffort |-> directEffort,
                 totalEffort |-> getTotalEffort(nodeId, comp),
                 uncertainty |-> uncertainty,
                 adjustedEffort |-> FMul(FInt(directEffort), uncertainty),
                 baseRisk |-> getBaseRisk(nodeId),
                 adjustedRisk |-> getAdjustedRisk(nodeId, comp),
                 readiness |-> computeReadiness(nodeId, comp),
                 safetyFactor |-> getSafetyFactor(nodeId, comp),
                 topoLevel |-> levelOf(topoLevels, nodeId)]]

\* ---------------------------------------------------------------- clusters
\* a sequence without its repeated elements, first occurrences kept: the
\* iteration order of a Set filled in the sequence's order
Distinct(seq) ==
    FilterSeq(seq, {i \in 1..Len(seq) : \A j \in 1..(i - 1) : seq[j] # seq[i]}, 1)

RECURSIVE relatesEnds_Directed(_, _)
\* variant: an edge makes its target a neighbor of its source only
relatesEnds_Directed(nodeId, i) ==
    IF i > Len(edges) THEN <<>>
    ELSE (IF edges[i].type = "RELATES_TO" /\ edges[i].source = nodeId
          THEN <<edges[i].target>> ELSE <<>>)
         \o relatesEnds_Directed(nodeId, i + 1)

RECURSIVE relatesEnds(_, _)
\* lines 1114-1119: what the loop over the edges adds to neighbors(nodeId)
relatesEnds(nodeId, i) ==
    IF i > Len(edges) THEN <<>>
    ELSE (IF edges[i].type = "RELATES_TO" /\ edges[i].source = nodeId
          THEN <<edges[i].target>> ELSE <<>>)
         \o (IF edges[i].type = "RELATES_TO" /\ edges[i].target = nodeId
             THEN <<edges[i].source>> ELSE <<>>)
         \o relatesEnds(nodeId, i + 1)

neighbors(nodeId) == Distinct(relatesEnds(nodeId, 1))

\* lines 1129-1140: the search from one node, st = [visited, cluster]
RECURSIVE clusterLoop(_, _)
clusterLoop(queue, st) ==
    IF Len(queue) = 0 THEN st
    ELSE LET current == Head(queue)
         IN  IF current \in st.visited THEN clusterLoop(Tail(queue), st)
             ELSE LET seen == st.visited \cup {current}
                      near == neighbors(current)
                  IN  clusterLoop(
                          Tail(queue) \o FilterSeq(near,
                              {i \in 1..Len(near) : near[i] \notin seen}, 1),
                          [visited |-> seen, cluster |-> Append(st.cluster, current)])

\* lines 1122-1146: acc = [visited, clusters]
RECURSIVE clustersFrom(_, _)
clustersFrom(nodeId, acc) ==
    IF nodeId > NumNodes THEN acc
    ELSE IF nodeId \in acc.visited THEN clustersFrom(nodeId + 1, acc)
    ELSE LET st == clusterLoop(<<nodeId>>, [visited |-> acc.visited, cluster |-> <<>>])
         IN  clustersFrom(nodeId + 1,
                 [visited |-> st.visited,
                  clusters |-> IF Len(st.cluster) > 1
                               THEN Append(acc.clusters, st.cluster)
                               ELSE acc.clusters])

\* the values of the returned map, in the order of their keys cluster-0,
\* cluster-1, ...
findClusters == clustersFrom(1, [visited |-> {}, clusters |-> <<>>]).clusters


\* -------------------------------------------------------- influence scores
\* the passes the loop of computeInfluenceScores makes in the model (the
\* default of the source is 20; the exact fractions of that many passes
\* exceed the integers of the checker)
Iterations == 2

\* damping: number = 0.85
Damping == [n |-> 17, d |-> 20]

\* sums, quotients and comparisons of fractions that cancel common
\* factors before they multiply
LCM(a, b) == (a \div GCD(a, b)) * b

FPlus(a, b) ==
    LET m == LCM(a.d, b.d)
    IN  Frac(a.n * (m \div a.d) + b.n * (m \div b.d), m)

FQuot(a, b) ==
    LET g == GCD(a.n, b.n)
        h == GCD(a.d, b.d)
    IN  Frac((a.n \div g) * (b.d \div h), (a.d \div h) * (b.n \div g))

FBelow(a, b) ==
    LET h == GCD(a.d, b.d)
    IN  a.n * (b.d \div h) < b.n * (a.d \div h)

MathMax(a, b) == IF a < b THEN b ELSE a

\* enablesMap.get(nodeId): the sources of the DEPENDS_ON edges into the node
\* and the targets of its FACILITATES edges, in edge order
enablesMap(nodeId) ==
    LET es == FilterSeq(edges,
                  {i \in 1..Len(edges) :
                      \/ edges[i].type = "DEPENDS_ON" /\ edges[i].target = nodeId
                      \/ edges[i].type = "FACILITATES" /\ edges[i].source = nodeId}, 1)
    IN  [i \in 1..Len(es) |->
            IF es[i].type = "DEPENDS_ON" THEN es[i].source ELSE es[i].target]

\* variant: a pass starts every score at 0
teleport_None(n) == FZero

\* (1 - damping) / n
teleport(n) == FQuot(FSub(FOne, Damping), FInt(n))

RECURSIVE flowInto(_, _, _, _)
\* the loop over incomingDeps: each edge adds
\* damping * (scores[edge.target] / max(enablesMap[edge.target].length, 1))
flowInto(incomingDeps, scores, score, i) ==
    IF i > Len(incomingDeps) THEN score
    ELSE LET edge == incomingDeps[i]
             sourceScore == IF edge.target \in DOMAIN scores
                            THEN scores[edge.target] ELSE FZero
             sourceOutDegree == IF edge.target \in DOMAIN nodes
                                THEN Len(enablesMap(edge.target)) ELSE 1
         IN  flowInto(incomingDeps, scores,
                 FPlus(score, FMul(Damping,
                     FQuot(sourceScore, FInt(MathMax(sourceOutDegree, 1))))),
                 i + 1)

RECURSIVE influencePass(_, _)
\* one pass: newScores for the nodes from nodeId on, in document order, from
\* the scores of the pass before
influencePass(scores, nodeId) ==
    IF nodeId > Len(nodes) THEN <<>>
    ELSE <<flowInto(OfType(incoming(nodeId), "DEPENDS_ON"), scores,
                    teleport(Len(nodes)), 1)>>
         \o influencePass(scores, nodeId + 1)

RECURSIVE influenceLoop(_, _)
\* the passes of lines 745-769
influenceLoop(scores, i) ==
    IF i = 0 THEN scores ELSE influenceLoop(influencePass(scores, 1), i - 1)

RECURSIVE maxScore(_, _, _)
\* Math.max(...scores.values()) of a non-empty map, started with its first
\* value
maxScore(scores, best, i) ==
    IF i > Len(scores) THEN best
    ELSE maxScore(scores, IF FBelow(best, scores[i]) THEN scores[i] ELSE best, i + 1)

RECURSIVE normalize(_, _, _)
\* score / maxScore for every score
normalize(scores, m, i) ==
    IF i > Len(scores) THEN <<>>
    ELSE <<FQuot(scores[i], m)>> \o normalize(scores, m, i + 1)

RECURSIVE equalScores(_, _)
\* scores.set(nodeId, 1 / n) for every node
equalScores(n, i) ==
    IF i > n THEN <<>> ELSE <<Frac(1, n)>> \o equalScores(n, i + 1)

\* computeInfluenceScores, lines 708-781.  Of an empty map the maximum is
\* -Infinity, the test maxScore > 0 fails and the empty map is returned.
computeInfluenceScores(iterations) ==
    LET n == Len(nodes)
        scores == influenceLoop(equalScores(n, 1), iterations)
    IN  IF n = 0 THEN scores
        ELSE IF FBelow(FZero, maxScore(scores, scores[1], 1))
        THEN normalize(scores, maxScore(scores, scores[1], 1), 1)
        ELSE scores


\* ----------------------------------------------------------- priority score
RECURSIVE weightedBlocks(_, _)
\* 1 + the number of descendants, summed over the blocked nodes
weightedBlocks(directlyBlocked, i) ==
    IF i > Len(directlyBlocked) THEN 0
    ELSE 1 + Len(getAllDescendants(directlyBlocked[i]))
           + weightedBlocks(directlyBlocked, i + 1)

getWeightedBlockingCount(nodeId) ==
    weightedBlocks(Sources(OfType(incoming(nodeId), "DEPENDS_ON")), 1)

\* downstream effort / own effort, 0 for a node without effort of its own
computeLeverage(nodeId, comp) ==
    LET ownEffort == getTotalEffort(nodeId, comp)
        downstreamEffort == getDownstreamEffort(nodeId, comp)
    IN  IF ownEffort = 0 THEN FZero ELSE Frac(downstreamEffort, ownEffort)

RECURSIVE mitigationLoop(_, _, _, _)
\* the sum of factor * effective effort * adjusted risk over the DERISKS
\* edges of the node whose target is a known, uncompleted node, the node
\* itself not being completed
mitigationLoop(nodeId, deriskedEdges, comp, i) ==
    IF i > Len(deriskedEdges) THEN FZero
    ELSE LET edge == deriskedEdges[i]
             rest == mitigationLoop(nodeId, deriskedEdges, comp, i + 1)
         IN  IF isCompleted(edge.target, comp) \/ isCompleted(nodeId, comp)
                \/ ~hasNode(edge.target)
             THEN rest
             ELSE FAdd(FMul(FMul(edge.factor,
                                 FInt(getEffectiveEffort(edge.target, comp))),
                            getAdjustedRisk(edge.target, comp)), rest)

computeRiskMitigationValue(nodeId, comp) ==
    mitigationLoop(nodeId, OfType(outgoing(nodeId), "DERISKS"), comp, 1)

\* the default weights of computePriorityScore
DefaultWeights ==
    [readiness |-> Frac(3, 10), influence |-> Frac(3, 20),
     leverage |-> Frac(1, 5), safetyFactor |-> Frac(3, 20),
     blockingScore |-> Frac(1, 5), riskMitigationBonus |-> Frac(1, 2)]

\* computePriorityScore with the default weights, lines 988-1043.  The
\* score returned by the source is
\*     rational + w.leverage * min(1, ln(1 + rawLeverage) / ln 11)
\*              + w.blockingScore * min(1, ln(1 + weightedBlocking) / ln 51)
\* where rational is the sum of the readiness, influence and safety terms
\* and the mitigation bonus; the two logarithmic terms are not rational
\* and are returned by their arguments.
computePriorityScore(nodeId, influenceScores, comp) ==
    LET w == DefaultWeights
        readiness == computeReadiness(nodeId, comp)
        influence == IF nodeId \in DOMAIN influenceScores
                     THEN influenceScores[nodeId] ELSE FZero
        safetyFactor == getSafetyFactor(nodeId, comp)
        riskMitigationValue == computeRiskMitigationValue(nodeId, comp)
        effort == getEffectiveEffort(nodeId, comp)
        mitigationBonus ==
            IF effort > 0
            THEN FMul(FQuot(riskMitigationValue, FInt(effort)), w.riskMitigationBonus)
            ELSE FZero
    IN  [rational |-> FPlus(FPlus(FPlus(FMul(w.readiness, readiness),
                                        FMul(w.influence, influence)),
                                  FMul(w.safetyFactor, safetyFactor)),
                            mitigationBonus),
         rawLeverage |-> computeLeverage(nodeId, comp),
         weightedBlocking |-> getWeightedBlockingCount(nodeId)]


\* ------------------------------------------------------------ derived edges
\* [...this.nodes.values()].filter((n) => n.type === type), as ids
getNodesByType(type) ==
    FilterSeq([i \in 1..NumNodes |-> i],
              {i \in NodeIds : nodes[i].type = type}, 1)

\* variant: the groups are keyed by the target parent alone
addToGroup_ByTarget(edgeGroups, targetParent, edge) ==
    IF \E g \in 1..Len(edgeGroups) : edgeGroups[g].targetParentId = targetParent
    THEN [g \in 1..Len(edgeGroups) |->
            IF edgeGroups[g].targetParentId = targetParent
            THEN [edgeGroups[g] EXCEPT !.childEdgeIds = Append(@, edge.id)]
            ELSE edgeGroups[g]]
    ELSE Append(edgeGroups, [targetParentId |-> targetParent, type |-> edge.type,
                             childEdgeIds |-> <<edge.id>>])

\* lines 1318-1327: edgeGroups, a map in insertion order with the key
\* targetParent:type, after one more edge
addToGroup(edgeGroups, targetParent, edge) ==
    IF \E g \in 1..Len(edgeGroups) :
          /\ edgeGroups[g].targetParentId = targetParent
          /\ edgeGroups[g].type = edge.type
    THEN [g \in 1..Len(edgeGroups) |->
            IF /\ edgeGroups[g].targetParentId = targetParent
               /\ edgeGroups[g].type = edge.type
            THEN [edgeGroups[g] EXCEPT !.childEdgeIds = Append(@, edge.id)]
            ELSE edgeGroups[g]]
    ELSE Append(edgeGroups, [targetParentId |-> targetParent, type |-> edge.type,
                             childEdgeIds |-> <<edge.id>>])

RECURSIVE groupEdges(_, _, _, _, _)
\* lines 1306-1328: the outgoing edges of one descendant
groupEdges(parentId, nodeType, outgoingEdges, edgeGroups, i) ==
    IF i > Len(outgoingEdges) THEN edgeGroups
    ELSE LET edge == outgoingEdges[i]
             targetParent == findAncestorOfType(edge.target, nodeType)
         IN  groupEdges(parentId, nodeType, outgoingEdges,
                 IF \/ ~hasNode(edge.target)
                    \/ targetParent = NoParent
                    \/ targetParent = parentId
                 THEN edgeGroups
                 ELSE addToGroup(edgeGroups, targetParent, edge),
                 i + 1)

RECURSIVE groupDescendants(_, _, _, _, _)
\* lines 1303-1329: the descendants of one parent
groupDescendants(parentId, nodeType, descendants, edgeGroups, j) ==
    IF j > Len(descendants) THEN edgeGroups
    ELSE groupDescendants(parentId, nodeType, descendants,
             groupEdges(parentId, nodeType, outgoing(descendants[j]), edgeGroups, 1),
             j + 1)

\* lines 1332-1340: one derived edge per group
derivedOfGroups(parentId, edgeGroups) ==
    [g \in 1..Len(edgeGroups) |->
        [source |-> parentId,
         target |-> edgeGroups[g].targetParentId,
         type |-> edgeGroups[g].type,
         weight |-> Len(edgeGroups[g].childEdgeIds),
         childEdges |-> edgeGroups[g].childEdgeIds]]

RECURSIVE derivedOfParents(_, _, _)
\* lines 1287-1341: the loop over the nodes of the type
derivedOfParents(parentNodes, nodeType, i) ==
    IF i > Len(parentNodes) THEN <<>>
    ELSE derivedOfGroups(parentNodes[i],
             groupDescendants(parentNodes[i], nodeType,
                              getAllDescendants(parentNodes[i]), <<>>, 1))
         \o derivedOfParents(parentNodes, nodeType, i + 1)

computeDerivedEdges(nodeType) ==
    derivedOfParents(getNodesByType(nodeType), nodeType, 1)

\* ------------------------------------------------------- graph documents
\* A document: nodes in document order with parentId chains that end
\* (a forest), edges between existing nodes, edge ids unique.
FactorOf(type) ==
    IF type = "FACILITATES" THEN Frac(5, 8)
    ELSE IF type = "DERISKS" THEN Frac(1, 2)
    ELSE FZero

\* edges between distinct nodes, of the given types
EdgeShapesOf(types) ==
    {[source |-> st[1], target |-> st[2], type |-> ty, factor |-> FactorOf(ty)] :
        st \in {x \in NodeIds \X NodeIds : x[1] # x[2]}, ty \in types}

SimEdgeShapes == EdgeShapesOf({"DEPENDS_ON", "FACILITATES"})

RiskEdgeShapes == EdgeShapesOf({"FACILITATES", "DERISKS"})

EdgeDocsOver(shapes) ==
    UNION {{[i \in 1..k |-> [id |-> i, source |-> f[i].source,
                             target |-> f[i].target, type |-> f[i].type,
                             factor |-> f[i].factor]] :
               f \in [1..k -> shapes]} : k \in 0..MaxEdges}

\* the flat forest (k = 1) and the chain 1 <- 2 <- ... <- NumNodes
SimParents ==
    {[i \in NodeIds |-> IF 1 < i /\ i <= k THEN i - 1 ELSE NoParent] :
        k \in {1, NumNodes}}

SimNodeDocs ==
    {[i \in NodeIds |->
        LET leaf == \A j \in NodeIds : p[j] # i
        IN  [type |-> IF leaf THEN "solution" ELSE "problem",
             parentId |-> p[i],
             baseEffort |-> IF leaf THEN 8 ELSE 0,
             baseRisk |-> IF leaf THEN Frac(1, 2) ELSE FZero,
             status |-> st[i]]] :
        p \in SimParents, st \in [NodeIds -> {"backlog", "done"}]}

\* The record of the last call: the operation, its argument, whether it
\* threw, the completed set on entry (pre) and what it returned (impact for
\* the simulator, deps and result for the queries).  undo
\* marks a markIncomplete(X) that directly follows a successful
\* markCompleted(X) entered with X not completed; pairPre is then the
\* completed set before that markCompleted.
CallRec(op, id, threw, pre, impact) ==
    [op |-> op, id |-> id, threw |-> threw, pre |-> pre, impact |-> impact,
     deps |-> <<>>, undo |-> FALSE, pairPre |-> {}, result |-> <<>>]

NoCall == CallRec("none", UnknownId, FALSE, {}, NoImpact)

\* the constructor, lines 67-104; no descendant-cache file is on disk, so
\* the index is the one computeDescendants builds from the document
InitWith(nodeDocs, edgeDocs) ==
    /\ nodes \in nodeDocs
    /\ edges \in edgeDocs
    /\ completedNodes = {i \in NodeIds : nodes[i].status = "done"}
    /\ snapshots = <<>>
    /\ descendantsCache = computeDescendants(nodes)
    /\ call = NoCall

Init == InitWith(SimNodeDocs, EdgeDocsOver(SimEdgeShapes))

\* ---------------------------------------------------------------- actions
MarkCompleted(nodeId) ==
    IF ~hasNode(nodeId)
    THEN /\ call' = CallRec("markCompleted", nodeId, TRUE, completedNodes, NoImpact)
         /\ UNCHANGED <<nodes, edges, completedNodes, snapshots, descendantsCache>>
    ELSE /\ completedNodes' = markCompletedSet(nodeId, completedNodes)
         /\ nodes' = [nodes EXCEPT ![nodeId].status = "done"]
         /\ call' = CallRec("markCompleted", nodeId, FALSE, completedNodes,
                            markCompletedImpact(nodeId, completedNodes))
         /\ UNCHANGED <<edges, snapshots, descendantsCache>>

MarkIncomplete(nodeId) ==
    /\ completedNodes' = markIncompleteSet(nodeId, completedNodes)
    /\ nodes' = IF hasNode(nodeId)
                THEN [nodes EXCEPT ![nodeId].status = "backlog"]
                ELSE nodes
    /\ call' = [CallRec("markIncomplete", nodeId, FALSE, completedNodes, NoImpact)
                EXCEPT !.undo = /\ call.op = "markCompleted"
                                /\ ~call.threw
                                /\ call.id = nodeId
                                /\ nodeId \notin call.pre,
                       !.pairPre = IF call.op = "markCompleted" /\ call.id = nodeId
                                   THEN call.pre ELSE {}]
    /\ UNCHANGED <<edges, snapshots, descendantsCache>>

PreviewCompletion(nodeId) ==
    /\ completedNodes' = previewCompletionSet(nodeId, completedNodes)
    /\ call' = CallRec("previewCompletion", nodeId, FALSE, completedNodes,
                       previewCompletionImpact(nodeId, completedNodes))
    /\ UNCHANGED <<nodes, edges, snapshots, descendantsCache>>

\* a query of the resolved dependency list of one node
GetAllDependencies(nodeId) ==
    /\ call' = [CallRec("getAllDependencies", nodeId, FALSE, completedNodes, NoImpact)
                EXCEPT !.deps = getAllDependencies(nodeId)]
    /\ UNCHANGED <<nodes, edges, completedNodes, snapshots, descendantsCache>>

\* takeSnapshot, lines 368-397 (the timestamp is left out)
TakeSnapshot ==
    /\ Len(snapshots) < MaxSnapshots
    /\ snapshots' = pushSnapshot(snapshots, newSnapshot(completedNodes))
    /\ call' = CallRec("takeSnapshot", UnknownId, FALSE, completedNodes, NoImpact)
    /\ UNCHANGED <<nodes, edges, completedNodes, descendantsCache>>

Next ==
    \E nodeId \in CallIds :
        \/ MarkCompleted(nodeId)
        \/ MarkIncomplete(nodeId)
        \/ PreviewCompletion(nodeId)

Spec == Init /\ [][Next]_vars

\* The same calls on the documents whose edges reduce effort and risk.
RiskInit == InitWith(SimNodeDocs, EdgeDocsOver(RiskEdgeShapes))

RiskSpec == RiskInit /\ [][Next]_vars

\* The engine with snapshots taken between the calls, on the documents
\* with fewer than MaxEdges edges.
SnapInit ==
    InitWith(SimNodeDocs,
             {es \in EdgeDocsOver(SimEdgeShapes) : Len(es) < MaxEdges})

SnapNext == Next \/ TakeSnapshot

SnapSpec == SnapInit /\ [][SnapNext]_vars

\* The snapshot history: three solution nodes without parents, at most
\* one edge leaving the first node, and one snapshot more than
\* MaxSnapshots taken between the calls on the nodes.
TakeSnapshotAgain ==
    /\ Len(snapshots) <= MaxSnapshots
    /\ snapshots' = pushSnapshot(snapshots, newSnapshot(completedNodes))
    /\ call' = CallRec("takeSnapshot", UnknownId, FALSE, completedNodes, NoImpact)
    /\ UNCHANGED <<nodes, edges, completedNodes, descendantsCache>>

HistNodeDocs ==
    {[i \in NodeIds |->
        [type |-> "solution", parentId |-> NoParent, baseEffort |-> 8,
         baseRisk |-> Frac(1, 2), status |-> "backlog"]]}

HistInit ==
    InitWith(HistNodeDocs,
             {es \in EdgeDocsOver(SimEdgeShapes) :
                 Len(es) < MaxEdges /\ \A i \in 1..Len(es) : es[i].source = 1})

HistNext ==
    \/ TakeSnapshotAgain
    \/ \E nodeId \in NodeIds :
          \/ MarkCompleted(nodeId)
          \/ MarkIncomplete(nodeId)
          \/ PreviewCompletion(nodeId)

HistSpec == HistInit /\ [][HistNext]_vars

\* The dependency resolver alone, on every forest of NumNodes nodes with
\* every typing and up to MaxEdges DEPENDS_ON edges (self-loops included).
RECURSIVE ChainEnds(_, _, _)
ChainEnds(p, i, fuel) ==
    IF i = NoParent THEN TRUE
    ELSE IF fuel = 0 THEN FALSE
    ELSE ChainEnds(p, p[i], fuel - 1)

Forests ==
    {p \in [NodeIds -> {NoParent} \cup NodeIds] :
        \A i \in NodeIds : ChainEnds(p, i, NumNodes)}

DepNodeDocs ==
    {[i \in NodeIds |->
        [type |-> ty[i], parentId |-> p[i],
         baseEffort |-> IF ty[i] = "solution" THEN 8 ELSE 0,
         baseRisk |-> IF ty[i] = "solution" THEN Frac(1, 2) ELSE FZero,
         status |-> "backlog"]] :
        p \in Forests, ty \in [NodeIds -> {"initiative", "problem", "solution"}]}

DepEdgeShapes ==
    {[source |-> s, target |-> t, type |-> "DEPENDS_ON", factor |-> FZero] :
        s \in NodeIds, t \in NodeIds}

DepInit == InitWith(DepNodeDocs, EdgeDocsOver(DepEdgeShapes))

DepNext == \E nodeId \in NodeIds : GetAllDependencies(nodeId)

DepSpec == DepInit /\ [][DepNext]_vars

\* The structural analyses, queried on the documents of SimNodeDocs (any
\* nodes done) with up to MaxEdges + 1 DEPENDS_ON edges: self-loops,
\* parallel edges, cycles of two and three nodes, and diamonds.
\* the record of a query: nothing thrown, completion untouched
QueryRec(op, id, result) ==
    [CallRec(op, id, FALSE, completedNodes, NoImpact) EXCEPT !.result = result]

ComputeTopologicalLevels ==
    /\ call' = QueryRec("computeTopologicalLevels", UnknownId,
                        computeTopologicalLevels)
    /\ UNCHANGED <<nodes, edges, completedNodes, snapshots, descendantsCache>>

FindCriticalPath ==
    /\ call' = QueryRec("findCriticalPath", UnknownId,
                        findCriticalPath(completedNodes))
    /\ UNCHANGED <<nodes, edges, completedNodes, snapshots, descendantsCache>>

FindCycles ==
    /\ call' = QueryRec("findCycles", UnknownId, findCycles)
    /\ UNCHANGED <<nodes, edges, completedNodes, snapshots, descendantsCache>>

GetDownstreamEffort(nodeId) ==
    /\ call' = QueryRec("getDownstreamEffort", nodeId,
                        getDownstreamEffort(nodeId, completedNodes))
    /\ UNCHANGED <<nodes, edges, completedNodes, snapshots, descendantsCache>>

ComputeReadiness(nodeId) ==
    /\ call' = QueryRec("computeReadiness", nodeId,
                        computeReadiness(nodeId, completedNodes))
    /\ UNCHANGED <<nodes, edges, completedNodes, snapshots, descendantsCache>>

TopoEdgeDocs ==
    UNION {{[i \in 1..k |-> [id |-> i, source |-> f[i].source,
                             target |-> f[i].target, type |-> f[i].type,
                             factor |-> f[i].factor]] :
               f \in [1..k -> DepEdgeShapes]} : k \in 0..(MaxEdges + 1)}

TopoInit == InitWith(SimNodeDocs, TopoEdgeDocs)

TopoNext ==
    \/ ComputeTopologicalLevels
    \/ FindCriticalPath
    \/ FindCycles
    \/ \E nodeId \in NodeIds :
          \/ GetDownstreamEffort(nodeId)
          \/ ComputeReadiness(nodeId)

TopoSpec == TopoInit /\ [][TopoNext]_vars

\* The metrics bundle, on three solution nodes without parents that carry
\* a baseUncertainty, any of them done, with up to MaxEdges INFORMS,
\* FACILITATES and DEPENDS_ON edges.
ComputeAllMetrics ==
    /\ call' = QueryRec("computeAllMetrics", UnknownId,
                        computeAllMetrics(completedNodes))
    /\ UNCHANGED <<nodes, edges, completedNodes, snapshots, descendantsCache>>

MetricsEdgeShapes ==
    {[source |-> st[1], target |-> st[2], type |-> ty,
      factor |-> IF ty = "INFORMS" THEN Frac(1, 2) ELSE FactorOf(ty)] :
        st \in {x \in NodeIds \X NodeIds : x[1] # x[2]},
        ty \in {"INFORMS", "FACILITATES", "DEPENDS_ON"}}

MetricsNodeDocs ==
    {[i \in NodeIds |->
        [type |-> "solution", parentId |-> NoParent,
         baseEffort |-> 8,
         baseRisk |-> Frac(1, 2),
         baseUncertainty |-> IF i = 1 THEN Frac(1, 2) ELSE IF i = 2 THEN FOne ELSE FZero,
         status |-> st[i]]] :
        st \in [NodeIds -> {"backlog", "done"}]}

MetricsInit == InitWith(MetricsNodeDocs, EdgeDocsOver(MetricsEdgeShapes))

MetricsNext == ComputeAllMetrics

MetricsSpec == MetricsInit /\ [][MetricsNext]_vars

\* findClusters on three nodes with up to MaxEdges + 1 RELATES_TO edges,
\* self-loops and parallel edges included.
FindClusters ==
    /\ call' = QueryRec("findClusters", UnknownId, findClusters)
    /\ UNCHANGED <<nodes, edges, completedNodes, snapshots, descendantsCache>>

ClusterEdgeDocs ==
    UNION {{[i \in 1..k |-> [id |-> i, source |-> f[i][1], target |-> f[i][2],
                             type |-> "RELATES_TO", factor |-> FZero]] :
               f \in [1..k -> NodeIds \X NodeIds]} : k \in 0..(MaxEdges + 1)}

ClusterInit == InitWith(HistNodeDocs, ClusterEdgeDocs)

ClusterNext == FindClusters

ClusterSpec == ClusterInit /\ [][ClusterNext]_vars


\* The influence scores alone: the documents of three solution nodes with
\* dependency and facilitation edges, and the document without nodes.
ComputeInfluenceScores ==
    /\ call' = QueryRec("computeInfluenceScores", UnknownId,
                        computeInfluenceScores(Iterations))
    /\ UNCHANGED <<nodes, edges, completedNodes, snapshots, descendantsCache>>

EmptyInit ==
    /\ nodes = <<>>
    /\ edges = <<>>
    /\ completedNodes = {}
    /\ snapshots = <<>>
    /\ descendantsCache = <<>>
    /\ call = NoCall

InfluenceInit ==
    \/ InitWith(HistNodeDocs, EdgeDocsOver(SimEdgeShapes))
    \/ EmptyInit

InfluenceNext == ComputeInfluenceScores

InfluenceSpec == InfluenceInit /\ [][InfluenceNext]_vars


\* The priority score alone: three solution nodes of efforts 2, 8 and 8
\* and risks 0, 1 and 1/2, any of them completed, with dependency,
\* facilitation and derisking edges; the influence scores are the ones
\* computeAllMetrics passes (line 1051).
ComputePriorityScore(nodeId) ==
    /\ call' = QueryRec("computePriorityScore", nodeId,
                        computePriorityScore(nodeId,
                            computeInfluenceScores(Iterations), completedNodes))
    /\ UNCHANGED <<nodes, edges, completedNodes, snapshots, descendantsCache>>

PriorityNodeDocs ==
    {[i \in NodeIds |->
        [type |-> "solution", parentId |-> NoParent,
         baseEffort |-> IF i = 1 THEN 2 ELSE 8,
         baseRisk |-> IF i = 1 THEN FZero ELSE IF i = 2 THEN FOne ELSE Frac(1, 2),
         status |-> st[i]]] :
        st \in [NodeIds -> {"backlog", "done"}]}

PriorityInit ==
    InitWith(PriorityNodeDocs,
             EdgeDocsOver(EdgeShapesOf({"DEPENDS_ON", "FACILITATES", "DERISKS"})))

PriorityNext == \E nodeId \in NodeIds : ComputePriorityScore(nodeId)

PrioritySpec == PriorityInit /\ [][PriorityNext]_vars


\* The hierarchy: every forest of NumNodes nodes typed problem or solution,
\* with up to MaxEdges DEPENDS_ON and FACILITATES edges between distinct
\* nodes; the descendant index is computed and the derived edges are asked
\* for at every node type.
ComputeDescendants ==
    /\ call' = QueryRec("computeDescendants", UnknownId, computeDescendants(nodes))
    /\ UNCHANGED <<nodes, edges, completedNodes, snapshots, descendantsCache>>

ComputeDerivedEdges(nodeType) ==
    /\ call' = QueryRec("computeDerivedEdges", UnknownId,
                        [nodeType |-> nodeType,
                         derivedEdges |-> computeDerivedEdges(nodeType)])
    /\ UNCHANGED <<nodes, edges, completedNodes, snapshots, descendantsCache>>

HierNodeDocs ==
    {[i \in NodeIds |->
        [type |-> ty[i], parentId |-> p[i],
         baseEffort |-> IF ty[i] = "solution" THEN 8 ELSE 0,
         baseRisk |-> IF ty[i] = "solution" THEN Frac(1, 2) ELSE FZero,
         status |-> "backlog"]] :
        p \in Forests, ty \in [NodeIds -> {"problem", "solution"}]}

HierInit == InitWith(HierNodeDocs, EdgeDocsOver(SimEdgeShapes))

HierNext ==
    \/ ComputeDescendants
    \/ \E nodeType \in NodeTypes : ComputeDerivedEdges(nodeType)

HierSpec == HierInit /\ [][HierNext]_vars

\* The adjustment engine alone: three solution nodes without parents,
\* up to MaxEdges FACILITATES and DERISKS edges with a factor of 0 (no
\* reduction), an inner value or 1, completed and uncompleted by calls.
AdjFactors(type) ==
    IF type = "FACILITATES" THEN {FZero, Frac(5, 8), FOne}
    ELSE {FZero, Frac(2, 5), FOne}

AdjEdgeShapes ==
    {[source |-> st[1], target |-> st[2], type |-> tf[1], factor |-> tf[2]] :
        st \in {x \in NodeIds \X NodeIds : x[1] # x[2]},
        tf \in {y \in {"FACILITATES", "DERISKS"} \X {FZero, Frac(2, 5), Frac(5, 8), FOne} :
                   y[2] \in AdjFactors(y[1])}}

AdjNodeDocs ==
    {[i \in NodeIds |->
        [type |-> "solution", parentId |-> NoParent,
         baseEffort |-> IF i = 1 THEN 8 ELSE IF i = 2 THEN 4 ELSE 5,
         baseRisk |-> IF i = 1 THEN Frac(1, 2) ELSE IF i = 2 THEN FOne ELSE FZero,
         status |-> "backlog"]]}

AdjInit == InitWith(AdjNodeDocs, EdgeDocsOver(AdjEdgeShapes))

AdjNext ==
    \E nodeId \in NodeIds :
        \/ MarkCompleted(nodeId)
        \/ MarkIncomplete(nodeId)

AdjSpec == AdjInit /\ [][AdjNext]_vars

\* ============================================================== properties
\* Vocabulary of the properties, defined from parentId and the edge list
\* alone (not from the engine's indices).
RECURSIVE Ancestors(_)
Ancestors(n) ==
    IF nodes[n].parentId = NoParent THEN {}
    ELSE {nodes[n].parentId} \cup Ancestors(nodes[n].parentId)

Subtree(n) == {n} \cup {m \in NodeIds : n \in Ancestors(m)}

DependsOnTargets(n) ==
    {edges[i].target : i \in {k \in 1..Len(edges) :
        edges[k].source = n /\ edges[k].type = "DEPENDS_ON"}}

\* the nodes of type ty among t and its ancestors that have no other such
\* node below them on t's chain: the ancestor of t at type ty, if any
TypedAncestors(t, ty) ==
    LET chain == {t} \cup Ancestors(t)
        typed == {a \in chain : nodes[a].type = ty}
    IN  {a \in typed : \A b \in typed : b = a \/ b \in Ancestors(a)}

PromotedTargets(n) ==
    IF nodes[n].type \notin HierTypes THEN {}
    ELSE {t \in UNION {DependsOnTargets(d) : d \in Subtree(n) \ {n}} :
            \E a \in TypedAncestors(t, nodes[n].type) : a \notin Subtree(n)}

ResolvedTargets(n) ==
    DependsOnTargets(n)
        \cup UNION {DependsOnTargets(a) : a \in Ancestors(n)}
        \cup PromotedTargets(n)

EveryMetricSame(compA, compB) ==
    \A n \in NodeIds :
        /\ isReady(n, compA) = isReady(n, compB)
        /\ getEffectiveEffort(n, compA) = getEffectiveEffort(n, compB)
        /\ getAdjustedRisk(n, compA) = getAdjustedRisk(n, compB)

\* C1: after previewCompletion(n) on a known node the completed set has
\* exactly the members it had before the call, so readiness, effective
\* effort and adjusted risk of every node are as before.
C1_PreviewRestoresCompleted ==
    (call.op = "previewCompletion" /\ call.id \in NodeIds)
        => /\ completedNodes = call.pre
           /\ EveryMetricSame(completedNodes, call.pre)

\* C2: previewCompletion(id) on a known node returns the impact record
\* markCompleted(id) returns from the same state.
C2_PreviewSameImpactAsMark ==
    (call.op = "previewCompletion" /\ call.id \in NodeIds)
        => call.impact = markCompletedImpact(call.id, call.pre)

\* C3: a markCompleted(id) on a known id adds id to the completed set and
\* sets id's status to done; no other id enters or leaves the completed
\* set, no other node changes, and nodes, edges and snapshots stay.
C3_MarkCompletedFrame ==
    [][(call'.op = "markCompleted" /\ ~call'.threw)
          => /\ call'.id \in completedNodes'
             /\ \A m \in CallIds \ {call'.id} :
                   (m \in completedNodes') = (m \in completedNodes)
             /\ DOMAIN nodes' = DOMAIN nodes
             /\ \A m \in NodeIds \ {call'.id} : nodes'[m] = nodes[m]
             /\ nodes'[call'.id] = [nodes[call'.id] EXCEPT !.status = "done"]
             /\ edges' = edges
             /\ snapshots' = snapshots]_vars

\* a markCompleted that made a dependent ready and left it and a child of
\* the completed node uncompleted, with a snapshot on record
C3_Witness ==
    /\ call.op = "markCompleted"
    /\ ~call.threw
    /\ call.id \notin call.pre
    /\ Len(call.impact.nowReady) > 0
    /\ \E c \in NodeIds : nodes[c].parentId = call.id /\ c \notin completedNodes
    /\ Len(snapshots) > 0

\* C4: markCompleted(id) with an id that is no node throws Not-Found and
\* leaves the completed set, every status and the snapshots as they were.
C4_MarkCompletedUnknown ==
    [][(call'.op = "markCompleted" /\ call'.id \notin NodeIds)
          => /\ call'.threw
             /\ completedNodes' = completedNodes
             /\ nodes' = nodes
             /\ snapshots' = snapshots]_vars

C4_Witness ==
    /\ call.op = "markCompleted"
    /\ call.id \notin NodeIds
    /\ call.threw
    /\ completedNodes # {}
    /\ Len(snapshots) > 0

\* C5: previewCompletion(id) with an id that is no node throws Not-Found
\* and leaves the completed set untouched; the id is not in it afterwards.
C5_PreviewUnknownThrows ==
    (call.op = "previewCompletion" /\ call.id \notin NodeIds)
        => /\ call.threw
           /\ completedNodes = call.pre
           /\ call.id \notin completedNodes

\* C6 as stated: markIncomplete(id) with an id that is no node throws
\* Not-Found, and the completed set and the statuses are unchanged.
C6_MarkIncompleteUnknownThrows ==
    [][(call'.op = "markIncomplete" /\ call'.id \notin NodeIds)
          => /\ call'.threw
             /\ completedNodes' = completedNodes
             /\ nodes' = nodes]_vars

\* C6 amended: markIncomplete(id) with an id that is no node returns
\* normally, raising nothing, and the completed set and the statuses are
\* unchanged.
C6_MarkIncompleteUnknownNoOp ==
    [][(call'.op = "markIncomplete" /\ call'.id \notin NodeIds)
          => /\ ~call'.threw
             /\ completedNodes' = completedNodes
             /\ nodes' = nodes]_vars

\* markIncomplete of the unknown id, called while that id sits in the
\* completed set and some node is completed
C6_Witness ==
    /\ call.op = "markIncomplete"
    /\ call.id \notin NodeIds
    /\ call.id \in call.pre
    /\ completedNodes \cap NodeIds # {}

\* C7: for X not completed, markCompleted(X) then markIncomplete(X) leaves
\* X not completed, the completed set as before the pair and the
\* effective effort of every node as before the pair.
C7_CompleteThenUndo ==
    (call.op = "markIncomplete" /\ call.undo)
        => /\ ~isCompleted(call.id, completedNodes)
           /\ completedNodes = call.pairPre
           /\ \A n \in NodeIds :
                 getEffectiveEffort(n, completedNodes)
                     = getEffectiveEffort(n, call.pairPre)

\* the pair has run on a node whose completion had lowered another node's
\* effort, with a descendant of it completed throughout
C7_Witness ==
    /\ call.op = "markIncomplete"
    /\ call.undo
    /\ \E n \in NodeIds :
          getEffectiveEffort(n, call.pre) < getEffectiveEffort(n, completedNodes)
    /\ \E d \in NodeIds : call.id \in Ancestors(d) /\ d \in completedNodes

\* C8: the resolved dependency list of n holds at most one edge per
\* target, and its targets are the targets of n's own DEPENDS_ON edges,
\* of the DEPENDS_ON edges of n's ancestors and, for a pillar, initiative
\* or problem, of the descendants' DEPENDS_ON edges whose target has its
\* ancestor of n's type outside n's subtree.
C8_ResolvedDependencies ==
    call.op = "getAllDependencies"
        => /\ \A i, j \in 1..Len(call.deps) :
                 call.deps[i].target = call.deps[j].target => i = j
           /\ {call.deps[i].target : i \in 1..Len(call.deps)}
                 = ResolvedTargets(call.id)

\* a node with a promoted dependency that is neither its own nor
\* inherited, and with a descendant's dependency that is not promoted
C8_Witness ==
    /\ call.op = "getAllDependencies"
    /\ PromotedTargets(call.id) \ DependsOnTargets(call.id) # {}
    /\ \E d \in Subtree(call.id) \ {call.id} :
          DependsOnTargets(d) \ ResolvedTargets(call.id) # {}
    /\ Len(call.deps) > 0

\* C9: in every state reached by markCompleted, markIncomplete and
\* previewCompletion calls, isReady(n) holds iff every resolved dependency
\* target of n is completed, and a node with an ancestor that has a
\* DEPENDS_ON edge to an uncompleted node is not ready.
C9_ReadyIffResolvedCompleted ==
    \A n \in NodeIds :
        /\ isReady(n, completedNodes) <=> ResolvedTargets(n) \subseteq completedNodes
        /\ \A a \in Ancestors(n) :
              ~(DependsOnTargets(a) \subseteq completedNodes)
                  => ~isReady(n, completedNodes)

\* after some call, a node is blocked only through an ancestor beyond
\* its parent
C9_Witness ==
    /\ call.op \in {"markCompleted", "markIncomplete", "previewCompletion"}
    /\ \E n \in NodeIds :
          /\ nodes[n].parentId # NoParent
          /\ ~isReady(n, completedNodes)
          /\ DependsOnTargets(n) \subseteq completedNodes
          /\ DependsOnTargets(nodes[n].parentId) \subseteq completedNodes
          /\ DependsOnTargets(n) \cup DependsOnTargets(nodes[n].parentId) # {}

\* C10: a markCompleted call raises no node's effective effort, and a
\* completed node's effective effort is 0 in every state.
C10_EffortNonIncreasing ==
    [][/\ \A n \in NodeIds \cap completedNodes :
             getEffectiveEffort(n, completedNodes) = 0
       /\ \A n \in NodeIds \cap completedNodes' :
             getEffectiveEffort(n, completedNodes') = 0
       /\ call'.op = "markCompleted"
             => \A n \in NodeIds :
                   getEffectiveEffort(n, completedNodes')
                       <= getEffectiveEffort(n, completedNodes)]_vars

\* a markCompleted that lowered the effort of a node left uncompleted
C10_Witness ==
    /\ call.op = "markCompleted"
    /\ ~call.threw
    /\ \E n \in NodeIds \ completedNodes :
          /\ getEffectiveEffort(n, completedNodes) < getEffectiveEffort(n, call.pre)
          /\ getEffectiveEffort(n, completedNodes) > 0

\* the edges of one type into n whose source is completed, as indices of
\* the document's edge list
CompletedInto(n, type, comp) ==
    {i \in 1..Len(edges) : /\ edges[i].target = n
                           /\ edges[i].type = type
                           /\ edges[i].source \in comp}

RECURSIVE ProductOneMinus(_)
ProductOneMinus(S) ==
    IF S = {} THEN FOne
    ELSE LET i == CHOOSE k \in S : TRUE
         IN  FMul(FSub(FOne, edges[i].factor), ProductOneMinus(S \ {i}))

\* r is an integer nearest to the fraction f
NearestInteger(r, f) ==
    /\ 2 * (f.n - r * f.d) <= f.d
    /\ 2 * (r * f.d - f.n) <= f.d

\* C11: the effective effort of a non-completed node is its baseEffort
\* times the product of (1 - factor) over the incoming FACILITATES edges
\* with a completed source, rounded to the nearest integer; a factor of 0
\* reduces nothing.
C11_EffectiveEffortFormula ==
    \A n \in NodeIds \ completedNodes :
        NearestInteger(getEffectiveEffort(n, completedNodes),
            FMul(FInt(nodes[n].baseEffort),
                 ProductOneMinus(CompletedInto(n, "FACILITATES", completedNodes))))

\* after a call, baseEffort 8 stands at 3 behind one completed facilitator
\* of factor 0.625 next to a completed facilitator without a factor,
\* while another node's product is not an integer
C11_Witness ==
    /\ call.op \in {"markCompleted", "markIncomplete"}
    /\ \E n \in NodeIds \ completedNodes :
          /\ nodes[n].baseEffort = 8
          /\ getEffectiveEffort(n, completedNodes) = 3
          /\ \E i, j \in CompletedInto(n, "FACILITATES", completedNodes) :
                edges[i].factor = Frac(5, 8) /\ edges[j].factor = FZero

FLeq(a, b) == ~FLess(b, a)

\* C12: in every state the adjusted risk of a node is its baseRisk times
\* the product of (1 - factor) over the incoming DERISKS edges with a
\* completed source; it lies in [0, baseRisk], is no higher under any
\* larger completed set, and the safety factor 1 - adjustedRisk lies in
\* [0, 1].
C12_AdjustedRiskFormula ==
    \A n \in NodeIds :
        LET risk == getAdjustedRisk(n, completedNodes)
            safety == getSafetyFactor(n, completedNodes)
        IN  /\ risk = FMul(nodes[n].baseRisk,
                     ProductOneMinus(CompletedInto(n, "DERISKS", completedNodes)))
            /\ FLeq(FZero, risk) /\ FLeq(risk, nodes[n].baseRisk)
            /\ safety = FSub(FOne, risk)
            /\ FLeq(FZero, safety) /\ FLeq(safety, FOne)
            /\ \A more \in SUBSET CallIds :
                  completedNodes \subseteq more
                      => FLeq(getAdjustedRisk(n, more), risk)

\* a markCompleted of a derisker of factor 0.4 took a baseRisk of 0.5
\* from 0.5 to 0.3, with a further derisker of the node not completed
C12_Witness ==
    /\ call.op = "markCompleted"
    /\ \E n \in NodeIds :
          /\ nodes[n].baseRisk = Frac(1, 2)
          /\ getAdjustedRisk(n, call.pre) = Frac(1, 2)
          /\ getAdjustedRisk(n, completedNodes) = Frac(3, 10)
          /\ \E i \in 1..Len(edges) :
                /\ edges[i].target = n
                /\ edges[i].type = "DERISKS"
                /\ edges[i].factor # FZero
                /\ edges[i].source \notin completedNodes

\* the nodes reached from n along one or more DEPENDS_ON edges
RECURSIVE ReachFrom(_, _)
ReachFrom(frontier, seen) ==
    LET next == UNION {DependsOnTargets(x) : x \in frontier} \ seen
    IN  IF next = {} THEN seen ELSE ReachFrom(next, seen \cup next)

DependsReach(n) == ReachFrom({n}, {})

OnCommonCycle(n, m) == m \in DependsReach(n) /\ n \in DependsReach(m)

\* C13: findCriticalPath() returns, with a finite path, on every graph,
\* graphs with a DEPENDS_ON cycle among nodes of positive effort included.
C13_CriticalPathReturns ==
    call.op = "findCriticalPath"
        => /\ call.result.returns
           /\ Len(call.result.path) <= NumNodes

\* C14: computeTopologicalLevels() returns with a level for every node,
\* on graphs with DEPENDS_ON cycles and self-loops too, and two nodes on
\* a common DEPENDS_ON cycle have the same level.
C14_LevelsTotalCyclesCollapse ==
    call.op = "computeTopologicalLevels"
        => /\ call.result.returns
           /\ DOMAIN call.result.levels = NodeIds
           /\ \A n \in NodeIds : call.result.levels[n] \in 0..NumNodes
           /\ \A n, m \in NodeIds :
                 OnCommonCycle(n, m) => call.result.levels[n] = call.result.levels[m]

\* levels computed for a cycle of two or more nodes that sits above a
\* node of a lower level, with a self-loop in the graph
C14_Witness ==
    /\ call.op = "computeTopologicalLevels"
    /\ \E n, m, k \in NodeIds :
          /\ n # m
          /\ OnCommonCycle(n, m)
          /\ call.result.levels[k] < call.result.levels[n]
    /\ \E i \in 1..Len(edges) : edges[i].source = edges[i].target

\* c starts and ends at one node and each step of it is a DEPENDS_ON edge
ClosedWalk(c) ==
    /\ Len(c) >= 2
    /\ c[1] = c[Len(c)]
    /\ \A k \in 1..(Len(c) - 1) : c[k + 1] \in DependsOnTargets(c[k])

\* C15: findCycles() returns the empty list iff no node reaches itself
\* along DEPENDS_ON edges; every cycle reported is a closed walk of
\* DEPENDS_ON edges; and for two nodes that depend on each other some
\* reported cycle holds both.
C15_CyclesReported ==
    call.op = "findCycles"
        => /\ (call.result = <<>>) <=> (\A n \in NodeIds : n \notin DependsReach(n))
           /\ \A k \in 1..Len(call.result) : ClosedWalk(call.result[k])
           /\ \A a, b \in NodeIds :
                 (a # b /\ b \in DependsOnTargets(a) /\ a \in DependsOnTargets(b))
                     => \E k \in 1..Len(call.result) :
                           {a, b} \subseteq SeqSet(call.result[k])

\* cycles reported on a graph with two nodes that depend on each other
\* and a third node that depends on the pair without being on a cycle
C15_Witness ==
    /\ call.op = "findCycles"
    /\ Len(call.result) > 0
    /\ \E a, b, c \in NodeIds :
          /\ a # b
          /\ b \in DependsOnTargets(a) /\ a \in DependsOnTargets(b)
          /\ a \in DependsOnTargets(c)
          /\ c \notin DependsReach(c)

RECURSIVE SumTotalOver(_, _)
SumTotalOver(S, comp) ==
    IF S = {} THEN 0
    ELSE LET m == CHOOSE x \in S : TRUE
         IN  getTotalEffort(m, comp) + SumTotalOver(S \ {m}, comp)

\* the nodes other than n that depend on n through one or more
\* DEPENDS_ON edges
Dependents(n) == {m \in NodeIds \ {n} : n \in DependsReach(m)}

\* C16: getDownstreamEffort(n) is the sum of getTotalEffort(m) over the
\* nodes m other than n that transitively depend on n, each counted once
\* whatever the number of paths or parallel edges that reach it.
C16_DownstreamCountsOnce ==
    call.op = "getDownstreamEffort"
        => call.result = SumTotalOver(Dependents(call.id), completedNodes)

\* C17 as stated: computeTopologicalLevels() gives level 0 to every node
\* that has no DEPENDS_ON edge to a node still uncompleted.
C17_LevelZeroWhenTargetsCompleted ==
    call.op = "computeTopologicalLevels"
        => \A n \in NodeIds :
              DependsOnTargets(n) \subseteq completedNodes
                  => call.result.levels[n] = 0

ReachesCycle(n) == \E m \in {n} \cup DependsReach(n) : m \in DependsReach(m)

HighestLevel(levels, S) == CHOOSE l \in {levels[t] : t \in S} :
                               \A t \in S : levels[t] <= l

\* C17 amended: computeTopologicalLevels() gives level 0 to every node
\* without an outgoing DEPENDS_ON edge, and to a node that has such edges
\* and reaches no cycle one more than the highest level of its targets,
\* completed or not.
C17_LevelZeroWithoutEdges ==
    call.op = "computeTopologicalLevels"
        => \A n \in NodeIds :
              /\ DependsOnTargets(n) = {} => call.result.levels[n] = 0
              /\ (DependsOnTargets(n) # {} /\ ~ReachesCycle(n))
                    => call.result.levels[n]
                          = 1 + HighestLevel(call.result.levels, DependsOnTargets(n))

\* levels computed where a node whose only targets are completed stands
\* above level 0 and two nodes without edges stand at level 0
C17_Witness ==
    /\ call.op = "computeTopologicalLevels"
    /\ \E n \in NodeIds :
          /\ DependsOnTargets(n) # {}
          /\ DependsOnTargets(n) \subseteq completedNodes
          /\ ~ReachesCycle(n)
          /\ call.result.levels[n] > 0
    /\ \E a, b \in NodeIds :
          /\ a # b
          /\ DependsOnTargets(a) = {} /\ DependsOnTargets(b) = {}
          /\ call.result.levels[a] = 0 /\ call.result.levels[b] = 0

\* C18: computeReadiness(n) is 0 for a completed n and otherwise
\* 1/(u+1), u the number of nodes n DEPENDS_ON that are not completed.
C18_ReadinessCountsUnmetTargets ==
    call.op = "computeReadiness"
        => call.result =
              IF call.id \in completedNodes THEN FZero
              ELSE Frac(1, Cardinality(DependsOnTargets(call.id) \ completedNodes) + 1)

\* C19: the adjustedEffort of every record computeAllMetrics() returns is
\* getAdjustedEffort of the record's node, effectiveEffort times
\* (1 + adjustedUncertainty).
C19_BundleAdjustedEffort ==
    call.op = "computeAllMetrics"
        => \A k \in 1..Len(call.result) :
              call.result[k].adjustedEffort
                  = getAdjustedEffort(call.result[k].id, completedNodes)

RECURSIVE SumEffectiveOver(_, _)
SumEffectiveOver(S, comp) ==
    IF S = {} THEN 0
    ELSE LET m == CHOOSE x \in S : TRUE
         IN  getEffectiveEffort(m, comp) + SumEffectiveOver(S \ {m}, comp)

OpenSolutions == {n \in NodeIds : nodes[n].type = "solution" /\ n \notin completedNodes}

\* C20: takeSnapshot() appends one snapshot whose totalRemainingEffort is
\* the effective effort summed over the non-completed solution nodes,
\* whose readyEffort is the part of the nodes with isReady and whose
\* blockedEffort the part of the others, so ready + blocked = total; its
\* completed set is the current one, and the completed set and the
\* statuses are left as they were.
C20_SnapshotSums ==
    [][call'.op = "takeSnapshot"
          => LET snap == snapshots'[Len(snapshots')]
                 ready == {n \in OpenSolutions : isReady(n, completedNodes)}
             IN  /\ snapshots' = Append(snapshots, snap)
                 /\ snap.totalRemainingEffort
                       = SumEffectiveOver(OpenSolutions, completedNodes)
                 /\ snap.readyEffort = SumEffectiveOver(ready, completedNodes)
                 /\ snap.blockedEffort
                       = SumEffectiveOver(OpenSolutions \ ready, completedNodes)
                 /\ snap.readyEffort + snap.blockedEffort = snap.totalRemainingEffort
                 /\ snap.completedNodes = completedNodes
                 /\ completedNodes' = completedNodes
                 /\ nodes' = nodes]_vars

\* a snapshot taken with a node completed, ready effort and blocked
\* effort both on record
C20_Witness ==
    /\ call.op = "takeSnapshot"
    /\ Len(snapshots) > 0
    /\ snapshots[Len(snapshots)].completedNodes \cap NodeIds # {}
    /\ snapshots[Len(snapshots)].readyEffort > 0
    /\ snapshots[Len(snapshots)].blockedEffort > 0

\* C21: each takeSnapshot() appends exactly one snapshot at the end of
\* the history and leaves the recorded ones as they were; markCompleted,
\* markIncomplete and previewCompletion leave the whole history, with the
\* completed-set copy and the three numbers of every snapshot, unchanged.
C21_HistoryAppendOnly ==
    [][/\ call'.op = "takeSnapshot"
             => /\ Len(snapshots') = Len(snapshots) + 1
                /\ SubSeq(snapshots', 1, Len(snapshots)) = snapshots
       /\ call'.op \in {"markCompleted", "markIncomplete", "previewCompletion"}
             => snapshots' = snapshots]_vars

\* two different snapshots on record, and a later call has left the
\* completed set different from both copies
C21_Witness ==
    /\ Len(snapshots) = 2
    /\ snapshots[1] # snapshots[2]
    /\ call.op \in {"markCompleted", "markIncomplete", "previewCompletion"}
    /\ completedNodes # snapshots[1].completedNodes
    /\ completedNodes # snapshots[2].completedNodes
    /\ snapshots[1].totalRemainingEffort # snapshots[2].totalRemainingEffort

\* the nodes a RELATES_TO edge joins to n, in either direction
Related(n) ==
    {m \in NodeIds : \E i \in 1..Len(edges) :
        /\ edges[i].type = "RELATES_TO"
        /\ \/ edges[i].source = n /\ edges[i].target = m
           \/ edges[i].source = m /\ edges[i].target = n}

RECURSIVE Grow(_)
Grow(S) ==
    LET more == S \cup UNION {Related(x) : x \in S}
    IN  IF more = S THEN S ELSE Grow(more)

Component(n) == Grow({n})

\* C22: the clusters findClusters() returns are the connected components
\* of the undirected RELATES_TO graph that have two or more nodes, each
\* once: two distinct nodes share a cluster iff RELATES_TO edges join
\* them, the clusters are pairwise disjoint, and none has a single node.
C22_ClustersAreComponents ==
    call.op = "findClusters"
        => LET found == call.result
           IN  /\ {SeqSet(found[k]) : k \in 1..Len(found)}
                     = {Component(n) : n \in {m \in NodeIds : Component(m) # {m}}}
               /\ \A k \in 1..Len(found) :
                     Cardinality(SeqSet(found[k])) = Len(found[k])
               /\ \A k \in 1..Len(found) : Len(found[k]) >= 2
               /\ \A j, k \in 1..Len(found) :
                     j # k => SeqSet(found[j]) \cap SeqSet(found[k]) = {}
               /\ \A a, b \in NodeIds :
                     a # b => ((\E k \in 1..Len(found) : {a, b} \subseteq SeqSet(found[k]))
                                <=> b \in Component(a))

\* a cluster of all three nodes found through an edge that points at
\* the first node, in a graph that also has a self-loop
C22_Witness ==
    /\ call.op = "findClusters"
    /\ Len(call.result) = 1
    /\ Len(call.result[1]) = NumNodes
    /\ \E i \in 1..Len(edges) : edges[i].target = 1 /\ edges[i].source # 1
    /\ \A i \in 1..Len(edges) : edges[i].source # 1 \/ edges[i].target = 1
    /\ \E i \in 1..Len(edges) : edges[i].source = edges[i].target


\* C24: computeInfluenceScores() returns, for a graph with at least one
\* node, a score for every node, each above 0 and at most 1, with the
\* largest score exactly 1; for the graph without nodes it returns no
\* score at all, hence none above 0.
C24_InfluenceNormalized ==
    call.op = "computeInfluenceScores" =>
        /\ DOMAIN call.result = DOMAIN nodes
        /\ \A id \in DOMAIN call.result :
              /\ FBelow(FZero, call.result[id])
              /\ ~FBelow(FOne, call.result[id])
        /\ DOMAIN nodes # {} => \E id \in DOMAIN call.result : call.result[id] = FOne
        /\ DOMAIN nodes = {} => \A id \in DOMAIN call.result : ~FBelow(FZero, call.result[id])

\* scores were computed for a graph on which they differ: some node has
\* the score 1 and another a smaller one
C24_Witness ==
    /\ call.op = "computeInfluenceScores"
    /\ \E a, b \in DOMAIN call.result :
          call.result[a] = FOne /\ FBelow(call.result[b], FOne)


\* the least and the largest value min(1, ln(1 + x) / ln base) can have
\* for a non-negative fraction x: 0 at x = 0, 1 from x = base - 1 on, and
\* strictly between the two elsewhere
LogNormFloor(x, base) == IF FLess(x, FInt(base - 1)) THEN FZero ELSE FOne

LogNormCeil(x) == IF x.n = 0 THEN FZero ELSE FOne

\* bounds of the score a result of computePriorityScore stands for
ScoreAtLeast(r) ==
    FPlus(r.rational,
          FPlus(FMul(DefaultWeights.leverage, LogNormFloor(r.rawLeverage, 11)),
                FMul(DefaultWeights.blockingScore,
                     LogNormFloor(FInt(r.weightedBlocking), 51))))

ScoreAtMost(r) ==
    FPlus(r.rational,
          FPlus(FMul(DefaultWeights.leverage, LogNormCeil(r.rawLeverage)),
                FMul(DefaultWeights.blockingScore,
                     LogNormCeil(FInt(r.weightedBlocking)))))

\* C23: with the default weights the priority score of every solution
\* node lies in [0, 1] in every completion state, the nodes with outgoing
\* DERISKS edges included.
C23_PriorityScoreInUnitRange ==
    call.op = "computePriorityScore" =>
        /\ FLeq(FZero, ScoreAtMost(call.result))
        /\ FLeq(ScoreAtLeast(call.result), FOne)


\* C25: every node listed in nowReady by a markCompleted(id) that returned
\* has a DEPENDS_ON edge to id, is not completed and is ready after the
\* call, and was not ready before the call.
C25_NowReadyNewlyReady ==
    call.op = "markCompleted" /\ ~call.threw =>
        \A i \in 1..Len(call.impact.nowReady) :
            LET d == call.impact.nowReady[i].id
            IN  /\ call.id \in DependsOnTargets(d)
                /\ d \notin completedNodes
                /\ isReady(d, completedNodes)
                /\ ~isReady(d, call.pre)


\* C26: after any sequence of markCompleted, markIncomplete,
\* previewCompletion and takeSnapshot calls from construction, a node is in
\* the completed set iff its status is done.
C26_CompletedIffDone ==
    \A n \in NodeIds : n \in completedNodes <=> nodes[n].status = "done"


\* no node reaches itself along DEPENDS_ON edges
AcyclicDependsOn == \A n \in NodeIds : n \notin DependsReach(n)

\* the dependency chains: each node of c depends on the node before it
Chains ==
    {c \in UNION {[1..k -> NodeIds] : k \in 1..NumNodes} :
        \A k \in 1..(Len(c) - 1) : c[k] \in DependsOnTargets(c[k + 1])}

RECURSIVE SumTotalAlong(_, _, _)
SumTotalAlong(c, comp, i) ==
    IF i > Len(c) THEN 0
    ELSE getTotalEffort(c[i], comp) + SumTotalAlong(c, comp, i + 1)

\* C27: on a graph whose DEPENDS_ON edges are acyclic, findCriticalPath()
\* returns a dependency chain of maximum total effort: each node of the
\* path has a DEPENDS_ON edge to the node before it, totalEffort is the sum
\* of getTotalEffort over the path, and no dependency chain has a larger
\* sum.
C27_CriticalPathIsLongestChain ==
    call.op = "findCriticalPath" /\ AcyclicDependsOn =>
        /\ call.result.returns
        /\ call.result.path \in Chains
        /\ call.result.totalEffort
              = SumTotalAlong(call.result.path, completedNodes, 1)
        /\ \A c \in Chains :
              SumTotalAlong(c, completedNodes, 1) <= call.result.totalEffort

\* a critical path of two or more nodes and positive effort was returned
\* on a graph without cycle on which a chain of positive, smaller effort
\* ends at another node
C27_Witness ==
    /\ call.op = "findCriticalPath"
    /\ AcyclicDependsOn
    /\ Len(call.result.path) >= 2
    /\ call.result.totalEffort > 0
    /\ \E c \in Chains :
          /\ c[Len(c)] # call.result.path[Len(call.result.path)]
          /\ 0 < SumTotalAlong(c, completedNodes, 1)
          /\ SumTotalAlong(c, completedNodes, 1) < call.result.totalEffort


\* C28: on a graph whose DEPENDS_ON edges are acyclic,
\* computeTopologicalLevels() gives a node level 0 iff it has no outgoing
\* DEPENDS_ON edge and otherwise 1 + the maximum level of its DEPENDS_ON
\* targets, so the source of every DEPENDS_ON edge stands strictly above
\* its target.
C28_LevelsOnAcyclicGraphs ==
    call.op = "computeTopologicalLevels" /\ AcyclicDependsOn =>
        /\ call.result.returns
        /\ \A n \in NodeIds :
              /\ call.result.levels[n] = 0 <=> DependsOnTargets(n) = {}
              /\ DependsOnTargets(n) # {}
                    => call.result.levels[n]
                          = 1 + HighestLevel(call.result.levels, DependsOnTargets(n))
        /\ \A i \in 1..Len(edges) :
              edges[i].type = "DEPENDS_ON"
                  => call.result.levels[edges[i].source]
                        > call.result.levels[edges[i].target]

\* levels computed on an acyclic graph where a node depends on two nodes
\* of different levels
C28_Witness ==
    /\ call.op = "computeTopologicalLevels"
    /\ AcyclicDependsOn
    /\ \E n \in NodeIds : \E a, b \in DependsOnTargets(n) :
          /\ call.result.levels[a] < call.result.levels[b]
          /\ call.result.levels[n] = call.result.levels[b] + 1


\* s lists no element twice
NoRepeats(s) == \A i, j \in 1..Len(s) : s[i] = s[j] => i = j

\* C30: on a forest, computeDescendants returns an entry for every node,
\* empty for the leaves; the entry of n lists exactly the nodes that have
\* n on their parentId chain, each once and never n, in pre-order: every
\* listed node is directly followed by its own entry.
C30_DescendantsPreOrder ==
    call.op = "computeDescendants" =>
        /\ DOMAIN call.result = NodeIds
        /\ \A n \in NodeIds :
              LET entry == call.result[n]
              IN  /\ SeqSet(entry) = {m \in NodeIds : n \in Ancestors(m)}
                  /\ NoRepeats(entry)
                  /\ n \notin SeqSet(entry)
                  /\ (\A m \in NodeIds : nodes[m].parentId # n) => entry = <<>>
                  /\ \A k \in 1..Len(entry) :
                        /\ k + Len(call.result[entry[k]]) <= Len(entry)
                        /\ SubSeq(entry, k + 1, k + Len(call.result[entry[k]]))
                              = call.result[entry[k]]

\* the index was computed for a chain of three nodes whose root comes last
\* in the document
C30_Witness ==
    /\ call.op = "computeDescendants"
    /\ \E n \in NodeIds :
          /\ Len(call.result[n]) = 2
          /\ nodes[call.result[n][2]].parentId = call.result[n][1]
          /\ \A m \in NodeIds \ {n} : m < n


\* the edges that contribute to the derived edge from p to the node ta in
\* type ty at level L: their source is a descendant of p, their type is
\* ty, and the nearest node of type L at or above their target is ta
Contributing(p, ta, ty, L) ==
    {i \in 1..Len(edges) :
        /\ p \in Ancestors(edges[i].source)
        /\ edges[i].type = ty
        /\ TypedAncestors(edges[i].target, L) = {ta}}

\* C29: for every node type L and every node P of type L,
\* computeDerivedEdges(L) emits exactly one derived edge per (target
\* ancestor, edge type) group formed from the outgoing edges of P's
\* descendants whose target has an ancestor-or-self of type L other than
\* P; its weight is the number of contributing edges, childEdges lists
\* exactly those edge ids, and no derived edge joins a node to itself.
C29_DerivedEdgesPerGroup ==
    call.op = "computeDerivedEdges" =>
        LET L == call.result.nodeType
            out == call.result.derivedEdges
        IN  /\ \A k \in 1..Len(out) :
                  /\ nodes[out[k].source].type = L
                  /\ out[k].source # out[k].target
                  /\ out[k].weight
                        = Cardinality(Contributing(out[k].source, out[k].target,
                                                   out[k].type, L))
                  /\ out[k].weight > 0
                  /\ NoRepeats(out[k].childEdges)
                  /\ {edges[i].id : i \in Contributing(out[k].source, out[k].target,
                                                       out[k].type, L)}
                        = SeqSet(out[k].childEdges)
            /\ \A p \in NodeIds : \A ta \in NodeIds \ {p} :
               \A ty \in {edges[i].type : i \in 1..Len(edges)} :
                  (nodes[p].type = L /\ Contributing(p, ta, ty, L) # {})
                      => Cardinality({k \in 1..Len(out) :
                             /\ out[k].source = p
                             /\ out[k].target = ta
                             /\ out[k].type = ty}) = 1

\* derived edges were computed where two edges of one type from below one
\* node reach the same other branch, which gives one derived edge of
\* weight 2
C29_Witness ==
    /\ call.op = "computeDerivedEdges"
    /\ Len(call.result.derivedEdges) = 1
    /\ call.result.derivedEdges[1].weight = 2
    /\ call.result.derivedEdges[1].childEdges = <<1, 2>>

====
